---- MODULE Spec2Model ----
(***************************************************************************)
(* pondsys: the Beam aggregate (src/pondsys/beam/beam.py), its mutators,   *)
(* the per-iteration model assembly, the ponding fixed-point iteration and *)
(* the envelope extraction, plus utils/divide_by_zero.py.                   *)
(*                                                                         *)
(* Units.  Positions along the beam are whole feet, depths, elevations and *)
(* deflections are thousandths of an inch (mil), the slope is mil per      *)
(* foot.  The unit weight 5.2 is carried as 52 tenths, so every load       *)
(* intensity is 10 times the product the code forms; load factors (1.0,    *)
(* 1.2, 1.4, 1.6) are carried as tenths (10, 12, 14, 16).  Python list     *)
(* indices are 0-based in the inputs and shifted by one on the sequences.  *)
(* Node 'N<k>' of the solver model is the integer k.                       *)
(***************************************************************************)
EXTENDS Integers, Sequences, FiniteSets, TLC

(* ---------------------------------------------------------------------- *)
(* Bounds of the model                                                      *)
(* ---------------------------------------------------------------------- *)

\* the beam is cut into 2 * HalfSegments equal segments (the code: 100)
HalfSegments == 2

\* number of calls made on one Beam (mutators, analyses, queries)
MaxCalls == 5

(* ---------------------------------------------------------------------- *)
(* Program constants                                                        *)
(* ---------------------------------------------------------------------- *)

\* elif iteration > 50
MaxIterations == 50

\* rel_err < 0.0001, as 1 / RelTolInv
RelTolInv == 10000

\* 5.2 lb/ft^2/in, in tenths
UnitWeight10 == 52

\* inches per foot (positions handed to the solver are X*12)
InchPerFoot == 12

NumSegments == 2 * HalfSegments

NumStations == NumSegments + 1

Cases == <<"D", "Lr", "R", "S", "PR", "PS">>

UserCases == {"D", "Lr", "R", "S"}

\* load_cases: name -> factors over [D, Lr, R, S, PR, PS], in tenths
load_cases ==
  [c \in {"1.0D", "1.0Lr", "1.0R", "1.0PR", "1.0S", "1.0PS"} |->
     CASE c = "1.0D"  -> <<10, 0, 0, 0, 0, 0>>
       [] c = "1.0Lr" -> <<0, 10, 0, 0, 0, 0>>
       [] c = "1.0R"  -> <<0, 0, 10, 0, 0, 0>>
       [] c = "1.0PR" -> <<0, 0, 0, 0, 10, 0>>
       [] c = "1.0S"  -> <<0, 0, 0, 10, 0, 0>>
       [] c = "1.0PS" -> <<0, 0, 0, 0, 0, 10>>]

asd_combinations ==
  [c \in {"1.0D+1.0Lr", "1.0D+1.0R", "1.0D+1.0R+1.0P", "1.0D+1.0S",
          "1.0D+1.0S+1.0P"} |->
     CASE c = "1.0D+1.0Lr"     -> <<10, 10, 0, 0, 0, 0>>
       [] c = "1.0D+1.0R"      -> <<10, 0, 10, 0, 0, 0>>
       [] c = "1.0D+1.0R+1.0P" -> <<10, 0, 10, 0, 10, 0>>
       [] c = "1.0D+1.0S"      -> <<10, 0, 0, 10, 0, 0>>
       [] c = "1.0D+1.0S+1.0P" -> <<10, 0, 0, 10, 0, 10>>]

lrfd_combinations ==
  [c \in {"1.4D", "1.2D+1.6Lr", "1.2D+1.6R", "1.2D+1.6R+1.6P", "1.2D+1.6S",
          "1.2D+1.6S+1.6P"} |->
     CASE c = "1.4D"           -> <<14, 0, 0, 0, 0, 0>>
       [] c = "1.2D+1.6Lr"     -> <<12, 16, 0, 0, 0, 0>>
       [] c = "1.2D+1.6R"      -> <<12, 0, 16, 0, 0, 0>>
       [] c = "1.2D+1.6R+1.6P" -> <<12, 0, 16, 0, 16, 0>>
       [] c = "1.2D+1.6S"      -> <<12, 0, 0, 16, 0, 0>>
       [] c = "1.2D+1.6S+1.6P" -> <<12, 0, 0, 16, 0, 16>>]

load_combinations == [asd |-> asd_combinations, lrfd |-> lrfd_combinations]

\* every name create_model registers with add_load_combo
AllCombos == load_cases @@ asd_combinations @@ lrfd_combinations

(* ---------------------------------------------------------------------- *)
(* Numbers: Python floats and numpy float64 scalars                         *)
(* ---------------------------------------------------------------------- *)

\* a finite value n/d (d > 0), +infinity, or nan
Num(n, d) == [kind |-> "num", n |-> n, d |-> d]

Inf == [kind |-> "inf", n |-> 0, d |-> 1]

NegInf == [kind |-> "-inf", n |-> 0, d |-> 1]

NaN == [kind |-> "nan", n |-> 0, d |-> 1]

Abs(x) == IF x < 0 THEN -x ELSE x

\* a / b in Python.  Operands of type float (or int) raise ZeroDivisionError
\* on b = 0; a numpy float64 operand makes the quotient follow IEEE 754 with
\* a RuntimeWarning: x/0 = inf (x > 0), -inf (x < 0), 0/0 = nan.
TrueDiv(a, b, numpy) ==
  IF b # 0 THEN Num(IF b < 0 THEN -a ELSE a, Abs(b))
  ELSE IF ~numpy THEN [kind |-> "ZeroDivisionError", n |-> 0, d |-> 1]
  ELSE IF a = 0 THEN NaN
  ELSE IF a < 0 THEN NegInf
  ELSE Inf

divide_by_zero(a, b, numpy) ==
  LET q == TrueDiv(a, b, numpy)
  IN  IF q.kind = "ZeroDivisionError" THEN Inf ELSE q

\* a convergence test that accepts only an error of exactly zero
BelowTol_exact(x) == x.kind = "num" /\ x.n = 0

\* x < 1/RelTolInv for a float x >= 0 (any comparison with nan is False)
BelowTol(x) ==
  x.kind = "num" /\ (x.n < 0 \/ x.n <= (x.d - 1) \div RelTolInv)

\* a <= b for a float a and a finite integer b
LeqInt(a, b) == a.kind = "num" /\ a.n <= b * a.d

(* ---------------------------------------------------------------------- *)
(* Sequences                                                                *)
(* ---------------------------------------------------------------------- *)

RECURSIVE SumSeq(_)
SumSeq(s) == IF s = <<>> THEN 0 ELSE Head(s) + SumSeq(Tail(s))

\* [i for i in s if i[pos] != case]
RECURSIVE WithoutCase(_, _, _)
WithoutCase(s, pos, case) ==
  IF s = <<>> THEN <<>>
  ELSE IF Head(s)[pos] # case
  THEN <<Head(s)>> \o WithoutCase(Tail(s), pos, case)
  ELSE WithoutCase(Tail(s), pos, case)

\* list.pop(index) for 0 <= index < len(list): the list without that element
PopAt(s, index) ==
  [i \in 1..(Len(s) - 1) |-> IF i <= index THEN s[i] ELSE s[i + 1]]

\* the elements of a finite set of integers in increasing order
RECURSIVE SortedSeq(_)
SortedSeq(S) ==
  IF S = {} THEN <<>>
  ELSE LET m == CHOOSE x \in S : \A y \in S : x <= y
       IN  <<m>> \o SortedSeq(S \ {m})

EmptyMap == [x \in {} |-> 0]

(* ---------------------------------------------------------------------- *)
(* Section properties (steelpy / joistpy tables)                            *)
(* ---------------------------------------------------------------------- *)

valid_sections == {"W12X14", "10K1"}

\* str.upper() on the designators the model feeds in
Upper(s) ==
  CASE s = "w12x14" -> "W12X14"
    [] s = "10k1"   -> "10K1"
    [] OTHER        -> s

\* sji.K_Series.designations[des].get_mom_inertia(span): in 1/100 in^4,
\* falling with the span
JoistInertia(des, span) == 40000 \div (span + 8)

\* the dict add_or_update_section stores, in 1/100 of the table units;
\* *0.05 and *1.05 are carried as /20 and *21/20
SectionProps(des, span) ==
  IF des = "W12X14"
  THEN [Iy |-> 236, Iz |-> 8860, J |-> 7, A |-> 416]
  ELSE [Iy |-> JoistInertia(des, span) \div 20,
        Iz |-> JoistInertia(des, span),
        J  |-> (JoistInertia(des, span) * 21) \div 20,
        A  |-> 150]

(* ---------------------------------------------------------------------- *)
(* State                                                                    *)
(* ---------------------------------------------------------------------- *)

VARIABLES
  length,               \* Beam.length, ft
  stations,             \* Beam.stations
  station_elevations,   \* Beam.station_elevations
  beam_slope,           \* Beam.beam_slope
  rain_depth,           \* Beam.rain_depth: <<static head, hydraulic head>>
  section,              \* Beam.section
  section_properties,   \* Beam.section_properties
  tributary_width,      \* Beam.tributary_width
  supports,             \* Beam.supports: list of <<location, DX, DY, RZ>>
  dist_loads,           \* Beam.dist_loads: <<start, stop, w1, w2, case>>
  point_loads,          \* Beam.point_loads: <<location, load, case>>
  support_nodes,        \* Beam.support_nodes: node -> location
  reaction_envelope,    \* Beam.reaction_envelope: node -> (combo -> RxnFY)
  max_moment_envelope,  \* Beam.max_moment_envelope
  min_moment_envelope,  \* Beam.min_moment_envelope
  max_defl_envelope,    \* Beam.max_defl_envelope
  min_defl_envelope,    \* Beam.min_defl_envelope
  analysis_stats,       \* Beam.analysis_stats
  model,                \* Beam.model, the solver model of the last assembly
  valid_results,        \* Beam.valid_results
  ponded_depth_history, \* Beam.ponded_depth_history
  deflection_history,   \* Beam.deflection_history
  pc,                   \* where the caller is: "idle", or inside analyze_ponding
  iteration,            \* analyze_ponding's local iteration
  ponded_area_stats,    \* analyze_ponding's local ponded_area_stats (3 * area)
  rel_err_stats,        \* analyze_ponding's local rel_err_stats
  analyze_calls,        \* self.model.analyze() calls of the current run
  calls,                \* number of calls made so far
  call_limit,           \* number of calls the caller makes at most
  last_op,              \* the call made last
  raised,               \* the exception the last call ended with, or "none"
  result,               \* what the last query returned
  section_log,          \* the successful add_or_update_section calls made
                        \* in a row: what each one left on the Beam
  dz                    \* a direct call divide_by_zero(a, b) and its outcome

geomVars == <<length, stations>>

inputVars == <<station_elevations, beam_slope, rain_depth, section,
               section_properties, tributary_width, supports, dist_loads,
               point_loads>>

envelopeVars == <<reaction_envelope, max_moment_envelope, min_moment_envelope,
                  max_defl_envelope, min_defl_envelope>>

runVars == <<support_nodes, analysis_stats, model, ponded_depth_history,
             deflection_history, iteration, ponded_area_stats, rel_err_stats,
             analyze_calls>>

callVars == <<calls, last_op, raised, result, section_log>>

\* what no step changes
fixedVars == <<call_limit>>

vars == <<geomVars, inputVars, envelopeVars, runVars, valid_results, pc,
          callVars, dz, fixedVars>>

(* ---------------------------------------------------------------------- *)
(* Inputs the calls are made with                                           *)
(* ---------------------------------------------------------------------- *)

Lengths == {12}

SupportLocations == {-1, 0, 6}

SpringConstants == {<<1000, 1000, 0>>}

ListIndices == {0, 1}

\* indices in halves: the ints 0 and 1, and the float 0.5
SupportIndices2 == {0, 1, 2}

CaseInputs == {"D", "R"}

DistLoadInputs == {<<0, 12, 100000, 100000, "D">>,
                   <<0, 13, 100000, 100000, "D">>,
                   <<-1, 12, 100000, 100000, "D">>,
                   <<0, 12, 100000, 100000, "PR">>}

PointLoadInputs == {<<6, 100000, "D">>,
                    <<13, 100000, "D">>,
                    <<-1, 100000, "D">>,
                    <<6, 100000, "PS">>}

SlopeInputs == {0, 5000}

WidthInputs == {0, 1}

RainDepthInputs == {<<0, 0>>, <<20000, 10000>>, <<-1, 0>>, <<1000>>,
                    <<1000, 0, 0>>}

SectionInputs == {"W12X14", "10K1", "W1X1"}

NodeInputs == {1, 2, 3}

ComboTypeInputs == {"asd", "lrfd", "ASD"}

(* ---------------------------------------------------------------------- *)
(* Beam.__init__                                                            *)
(* ---------------------------------------------------------------------- *)

\* np.linspace(0, length, 101): NumStations equally spaced stations
SegmentBeam(len) == [i \in 1..NumStations |-> ((i - 1) * len) \div NumSegments]

Zeros == [i \in 1..NumStations |-> 0]

EmptyEnvelope == [cases |-> EmptyMap, asd |-> EmptyMap, lrfd |-> EmptyMap]

NoModel ==
  [built |-> FALSE, nodes |-> <<>>, fixed |-> EmptyMap, springs |-> {},
   member |-> FALSE, loads |-> <<>>, combos |-> {}, Iz |-> 0, analyzed |-> 0]

NoResult == [kind |-> "none"]

NoStats == [iterations |-> 0, ponded_area |-> <<>>, rel_err |-> <<>>,
            set |-> FALSE]

\* Beam(len)
BeamCreated(len) ==
  /\ length = len
  /\ stations = SegmentBeam(len)
  /\ ponded_depth_history = <<[rain |-> Zeros, snow |-> Zeros]>>
  /\ deflection_history = <<[rain |-> Zeros, snow |-> Zeros]>>
  /\ station_elevations = Zeros
  /\ beam_slope = 0
  /\ rain_depth = <<0, 0>>
  /\ section = "W12X14"
  /\ section_properties = SectionProps("W12X14", length)
  /\ tributary_width = 0
  /\ dist_loads = <<>>
  /\ point_loads = <<>>
  /\ supports = <<>>
  /\ support_nodes = EmptyMap
  /\ reaction_envelope = EmptyMap
  /\ max_moment_envelope = EmptyEnvelope
  /\ min_moment_envelope = EmptyEnvelope
  /\ max_defl_envelope = EmptyEnvelope
  /\ min_defl_envelope = EmptyEnvelope
  /\ analysis_stats = NoStats
  /\ model = NoModel
  /\ valid_results = FALSE
  /\ pc = "idle"
  /\ iteration = 0
  /\ ponded_area_stats = <<>>
  /\ rel_err_stats = <<>>
  /\ analyze_calls = 0
  /\ calls = 0
  /\ last_op = "__init__"
  /\ raised = "none"
  /\ result = NoResult
  /\ section_log = <<>>

BeamInit == \E len \in Lengths : BeamCreated(len)

NoDivide == [a |-> 0, b |-> 1, numpy |-> FALSE, out |-> NoResult]

Init == BeamInit /\ dz = NoDivide /\ call_limit = MaxCalls

(* ---------------------------------------------------------------------- *)
(* Mutators                                                                 *)
(* ---------------------------------------------------------------------- *)

\* a call may start: nothing is running and the call budget is not used up
CanCall == pc = "idle" /\ calls < call_limit

\* the call `op` returns (exc = "none") or ends by raising exc
Ends(op, exc) ==
  /\ calls' = calls + 1
  /\ last_op' = op
  /\ raised' = exc
  /\ result' = NoResult
  /\ section_log' =
       IF op = "add_or_update_section" /\ exc = "none"
       THEN Append(section_log,
                   [section |-> section', properties |-> section_properties',
                    length |-> length])
       ELSE <<>>

\* what a mutator leaves alone besides the Beam inputs
MutatorFrame == UNCHANGED <<geomVars, envelopeVars, runVars, pc, dz, fixedVars>>

add_support(location, DX, DY, RZ) ==
  /\ CanCall
  /\ IF location < 0
     THEN /\ Ends("add_support", "ValueError")
          /\ UNCHANGED <<inputVars, valid_results>>
     ELSE /\ supports' = Append(supports, <<location, DX, DY, RZ>>)
          /\ valid_results' = FALSE
          /\ Ends("add_support", "none")
          /\ UNCHANGED <<station_elevations, beam_slope, rain_depth, section,
                         section_properties, tributary_width, dist_loads,
                         point_loads>>
  /\ MutatorFrame

\* a delete that also throws the recorded reactions away
delete_support_drops_reactions(index2) ==
  /\ CanCall
  /\ IF index2 < 0 \/ index2 >= 2 * Len(supports)
     THEN /\ Ends("delete_support", "ValueError")
          /\ UNCHANGED <<inputVars, valid_results, reaction_envelope>>
     ELSE IF index2 % 2 # 0
     THEN /\ valid_results' = FALSE
          /\ Ends("delete_support", "TypeError")
          /\ UNCHANGED <<inputVars, reaction_envelope>>
     ELSE /\ valid_results' = FALSE
          /\ supports' = PopAt(supports, index2 \div 2)
          /\ reaction_envelope' = EmptyMap
          /\ Ends("delete_support", "none")
          /\ UNCHANGED <<station_elevations, beam_slope, rain_depth, section,
                         section_properties, tributary_width, dist_loads,
                         point_loads>>
  /\ UNCHANGED <<geomVars, max_moment_envelope, min_moment_envelope,
                 max_defl_envelope, min_defl_envelope, runVars, pc, dz, fixedVars>>

\* delete_support(index), the index given in halves (index2 = 2 * index):
\* an odd index2 is a float such as 0.5
delete_support(index2) ==
  /\ CanCall
  /\ IF index2 < 0 \/ index2 >= 2 * Len(supports)
     THEN /\ Ends("delete_support", "ValueError")
          /\ UNCHANGED <<inputVars, valid_results>>
     ELSE IF index2 % 2 # 0
     \* self.valid_results = False, then list.pop raises for a float
     THEN /\ valid_results' = FALSE
          /\ Ends("delete_support", "TypeError")
          /\ UNCHANGED inputVars
     ELSE /\ valid_results' = FALSE
          /\ supports' = PopAt(supports, index2 \div 2)
          /\ Ends("delete_support", "none")
          /\ UNCHANGED <<station_elevations, beam_slope, rain_depth, section,
                         section_properties, tributary_width, dist_loads,
                         point_loads>>
  /\ MutatorFrame

add_or_update_beam_slope(slope) ==
  /\ CanCall
  /\ IF slope < 0
     THEN /\ Ends("add_or_update_beam_slope", "ValueError")
          /\ UNCHANGED <<inputVars, valid_results>>
     ELSE /\ beam_slope' = slope
          /\ station_elevations' =
               [i \in DOMAIN stations |-> stations[i] * slope]
          /\ valid_results' = FALSE
          /\ Ends("add_or_update_beam_slope", "none")
          /\ UNCHANGED <<rain_depth, section, section_properties,
                         tributary_width, supports, dist_loads, point_loads>>
  /\ MutatorFrame

\* checks that look at the positions only
AddDistLoadCheck_nocase(start, stop, case, len) ==
  IF start < 0 \/ stop < 0 THEN "ValueError"
  ELSE IF start > len \/ stop > len THEN "ValueError"
  ELSE "none"

\* the exception add_dist_load raises for these arguments, or "none"
AddDistLoadCheck(start, stop, case, len) ==
  IF start < 0 \/ stop < 0 THEN "ValueError"
  ELSE IF start > len \/ stop > len THEN "ValueError"
  ELSE IF case \notin UserCases THEN "ValueError"
  ELSE "none"

add_dist_load(start, stop, start_load, stop_load, case) ==
  /\ CanCall
  /\ IF AddDistLoadCheck(start, stop, case, length) # "none"
     THEN /\ Ends("add_dist_load", AddDistLoadCheck(start, stop, case, length))
          /\ UNCHANGED <<inputVars, valid_results>>
     ELSE /\ dist_loads' =
               Append(dist_loads, <<start, stop, start_load, stop_load, case>>)
          /\ valid_results' = FALSE
          /\ Ends("add_dist_load", "none")
          /\ UNCHANGED <<station_elevations, beam_slope, rain_depth, section,
                         section_properties, tributary_width, supports,
                         point_loads>>
  /\ MutatorFrame

delete_dist_load(index) ==
  /\ CanCall
  /\ IF index < 0 \/ index >= Len(dist_loads)
     THEN /\ Ends("delete_dist_load", "ValueError")
          /\ UNCHANGED <<inputVars, valid_results>>
     ELSE /\ valid_results' = FALSE
          /\ dist_loads' = PopAt(dist_loads, index)
          /\ Ends("delete_dist_load", "none")
          /\ UNCHANGED <<station_elevations, beam_slope, rain_depth, section,
                         section_properties, tributary_width, supports,
                         point_loads>>
  /\ MutatorFrame

\* a clear that removes nothing
ClearDistLoads_none(loads, case) == loads

\* [i for i in self.dist_loads if i[4] != case]
ClearDistLoads(loads, case) == WithoutCase(loads, 5, case)

clear_dist_loads(case) ==
  /\ CanCall
  /\ IF case \notin UserCases
     THEN /\ Ends("clear_dist_loads", "ValueError")
          /\ UNCHANGED <<inputVars, valid_results>>
     ELSE /\ dist_loads' = ClearDistLoads(dist_loads, case)
          /\ valid_results' = FALSE
          /\ Ends("clear_dist_loads", "none")
          /\ UNCHANGED <<station_elevations, beam_slope, rain_depth, section,
                         section_properties, tributary_width, supports,
                         point_loads>>
  /\ MutatorFrame

add_point_load(location, load, case) ==
  /\ CanCall
  /\ IF location < 0 \/ location > length \/ case \notin UserCases
     THEN /\ Ends("add_point_load", "ValueError")
          /\ UNCHANGED <<inputVars, valid_results>>
     ELSE /\ point_loads' = Append(point_loads, <<location, load, case>>)
          /\ valid_results' = FALSE
          /\ Ends("add_point_load", "none")
          /\ UNCHANGED <<station_elevations, beam_slope, rain_depth, section,
                         section_properties, tributary_width, supports,
                         dist_loads>>
  /\ MutatorFrame

delete_point_load(index) ==
  /\ CanCall
  /\ IF index < 0 \/ index >= Len(point_loads)
     THEN /\ Ends("delete_point_load", "ValueError")
          /\ UNCHANGED <<inputVars, valid_results>>
     ELSE /\ valid_results' = FALSE
          /\ point_loads' = PopAt(point_loads, index)
          /\ Ends("delete_point_load", "none")
          /\ UNCHANGED <<station_elevations, beam_slope, rain_depth, section,
                         section_properties, tributary_width, supports,
                         dist_loads>>
  /\ MutatorFrame

\* [i for i in self.point_loads if i[2] != case]
ClearPointLoads(loads, case) == WithoutCase(loads, 3, case)

clear_point_loads(case) ==
  /\ CanCall
  /\ IF case \notin UserCases
     THEN /\ Ends("clear_point_loads", "ValueError")
          /\ UNCHANGED <<inputVars, valid_results>>
     ELSE /\ point_loads' = ClearPointLoads(point_loads, case)
          /\ valid_results' = FALSE
          /\ Ends("clear_point_loads", "none")
          /\ UNCHANGED <<station_elevations, beam_slope, rain_depth, section,
                         section_properties, tributary_width, supports,
                         dist_loads>>
  /\ MutatorFrame

\* an update that forgets to invalidate the results
add_or_update_tributary_width_stale(width) ==
  /\ CanCall
  /\ IF width < 0
     THEN /\ Ends("add_or_update_tributary_width", "ValueError")
          /\ UNCHANGED <<inputVars, valid_results>>
     ELSE /\ tributary_width' = width
          /\ Ends("add_or_update_tributary_width", "none")
          /\ UNCHANGED <<station_elevations, beam_slope, rain_depth, section,
                         section_properties, supports, dist_loads, point_loads,
                         valid_results>>
  /\ MutatorFrame

add_or_update_tributary_width(width) ==
  /\ CanCall
  /\ IF width < 0
     THEN /\ Ends("add_or_update_tributary_width", "ValueError")
          /\ UNCHANGED <<inputVars, valid_results>>
     ELSE /\ tributary_width' = width
          /\ valid_results' = FALSE
          /\ Ends("add_or_update_tributary_width", "none")
          /\ UNCHANGED <<station_elevations, beam_slope, rain_depth, section,
                         section_properties, supports, dist_loads, point_loads>>
  /\ MutatorFrame

\* an update that adds the new inertia to the one the Beam already has
add_or_update_section_cumulative(sec) ==
  /\ CanCall
  /\ IF Upper(sec) \notin valid_sections
     THEN /\ Ends("add_or_update_section", "ValueError")
          /\ UNCHANGED <<inputVars, valid_results>>
     ELSE /\ section' = Upper(sec)
          /\ section_properties' =
               [SectionProps(Upper(sec), length) EXCEPT
                  !.Iz = @ + section_properties.Iz]
          /\ valid_results' = FALSE
          /\ Ends("add_or_update_section", "none")
          /\ UNCHANGED <<station_elevations, beam_slope, rain_depth,
                         tributary_width, supports, dist_loads, point_loads>>
  /\ MutatorFrame

add_or_update_section(sec) ==
  /\ CanCall
  /\ IF Upper(sec) \notin valid_sections
     THEN /\ Ends("add_or_update_section", "ValueError")
          /\ UNCHANGED <<inputVars, valid_results>>
     ELSE /\ section' = Upper(sec)
          /\ section_properties' = SectionProps(Upper(sec), length)
          /\ valid_results' = FALSE
          /\ Ends("add_or_update_section", "none")
          /\ UNCHANGED <<station_elevations, beam_slope, rain_depth,
                         tributary_width, supports, dist_loads, point_loads>>
  /\ MutatorFrame

\* the exception the checks of add_or_update_rain_load raise for the tuple
\* rd, or "none": rd[0] and rd[1] are read before the length is checked
RainDepthCheck(rd) ==
  IF Len(rd) = 0 THEN "IndexError"
  ELSE IF rd[1] < 0 THEN "ValueError"
  ELSE IF Len(rd) = 1 THEN "IndexError"
  ELSE IF rd[2] < 0 THEN "ValueError"
  ELSE IF Len(rd) # 2 THEN "ValueError"
  ELSE "none"

\* rain_load_limit: sum(rain_depth)/beam_slope when that is at most the
\* length, the length otherwise (operands are Python floats)
RainLoadLimit(head, slope, len) ==
  IF LeqInt(divide_by_zero(head, slope, FALSE), len)
  THEN head \div slope
  ELSE len

\* the 'R' load add_or_update_rain_load installs
RainDistLoad(head, slope, len, width) ==
  LET limit           == RainLoadLimit(head, slope, len)
      rain_load_start == UnitWeight10 * head
      rain_load_end   == UnitWeight10 * (head - limit * slope)
  IN  <<0, limit, rain_load_start * width, rain_load_end * width, "R">>

add_or_update_rain_load(rd, auto_add_dist_load) ==
  /\ CanCall
  /\ IF RainDepthCheck(rd) # "none"
     THEN /\ Ends("add_or_update_rain_load", RainDepthCheck(rd))
          /\ UNCHANGED <<inputVars, valid_results>>
     ELSE LET load    == RainDistLoad(rd[1] + rd[2], beam_slope, length,
                                      tributary_width)
              cleared == ClearDistLoads(dist_loads, "R")
              exc     == AddDistLoadCheck(load[1], load[2], load[5], length)
          IN  /\ rain_depth' = rd
              /\ IF ~auto_add_dist_load
                 THEN /\ dist_loads' = dist_loads
                      /\ valid_results' = FALSE
                      /\ Ends("add_or_update_rain_load", "none")
                 ELSE IF exc # "none"
                 \* clear_dist_loads('R') has run, add_dist_load raises
                 THEN /\ dist_loads' = cleared
                      /\ valid_results' = FALSE
                      /\ Ends("add_or_update_rain_load", exc)
                 ELSE /\ dist_loads' = Append(cleared, load)
                      /\ valid_results' = FALSE
                      /\ Ends("add_or_update_rain_load", "none")
              /\ UNCHANGED <<station_elevations, beam_slope, section,
                             section_properties, tributary_width, supports,
                             point_loads>>
  /\ MutatorFrame

(* ---------------------------------------------------------------------- *)
(* create_model                                                             *)
(* ---------------------------------------------------------------------- *)

\* _calc_ponding_load: one row <<x1, 5.2*d1, x2, 5.2*d2>> per segment
PondingRows(depths) ==
  [k \in 1..(Len(stations) - 1) |->
     <<stations[k], UnitWeight10 * depths[k],
       stations[k + 1], UnitWeight10 * depths[k + 1]>>]

calc_ponding_load(ponded_depths) ==
  [rain |-> PondingRows(ponded_depths.rain),
   snow |-> PondingRows(ponded_depths.snow)]

\* the node list after 'N1', 'N2' and one node per support location that no
\* earlier node is close to
RECURSIVE AddSupportNodes(_, _)
AddSupportNodes(nodes, sups) ==
  IF sups = <<>> THEN nodes
  ELSE LET x == Head(sups)[1] * InchPerFoot
       IN  IF \E i \in DOMAIN nodes : nodes[i] = x
           THEN AddSupportNodes(nodes, Tail(sups))
           ELSE AddSupportNodes(Append(nodes, x), Tail(sups))

\* the node a support sits on
NodeAt(nodes, location) ==
  CHOOSE i \in DOMAIN nodes : nodes[i] = location * InchPerFoot

\* self.support_nodes: node name -> support[0]
SupportNodes(nodes, sups) ==
  [n \in {NodeAt(nodes, sups[i][1]) : i \in DOMAIN sups} |->
     nodes[n] \div InchPerFoot]

\* def_support(node, False, False, True, True, False, False):
\* the flags are support_DX, support_DY, support_DZ, support_RX, support_RY,
\* support_RZ
DefSupportFlags ==
  [DX |-> FALSE, DY |-> FALSE, DZ |-> TRUE, RX |-> TRUE, RY |-> FALSE,
   RZ |-> FALSE]

\* def_support_spring calls: one per nonzero spring constant
SupportSprings(nodes, sups) ==
  {t \in UNION {{<<NodeAt(nodes, sups[i][1]), "DX", sups[i][2]>>,
                  <<NodeAt(nodes, sups[i][1]), "DY", sups[i][3]>>,
                  <<NodeAt(nodes, sups[i][1]), "RZ", sups[i][4]>>}
                 : i \in DOMAIN sups} : t[3] # 0}

\* the loads handed to the solver, in the order create_model adds them
ModelLoads(ponding_load) ==
  [i \in DOMAIN dist_loads |->
     [kind |-> "dist", case |-> dist_loads[i][5],
      w1 |-> dist_loads[i][3], w2 |-> dist_loads[i][4],
      x1 |-> dist_loads[i][1] * InchPerFoot,
      x2 |-> dist_loads[i][2] * InchPerFoot]]
  \o
  [i \in DOMAIN point_loads |->
     [kind |-> "point", case |-> point_loads[i][3],
      w1 |-> point_loads[i][2], w2 |-> 0,
      x1 |-> point_loads[i][1] * InchPerFoot,
      x2 |-> point_loads[i][1] * InchPerFoot]]
  \o
  [i \in DOMAIN ponding_load.rain |->
     [kind |-> "dist", case |-> "PR",
      w1 |-> ponding_load.rain[i][2] * tributary_width,
      w2 |-> ponding_load.rain[i][4] * tributary_width,
      x1 |-> ponding_load.rain[i][1] * InchPerFoot,
      x2 |-> ponding_load.rain[i][3] * InchPerFoot]]
  \o
  [i \in DOMAIN ponding_load.snow |->
     [kind |-> "dist", case |-> "PS",
      w1 |-> ponding_load.snow[i][2] * tributary_width,
      w2 |-> ponding_load.snow[i][4] * tributary_width,
      x1 |-> ponding_load.snow[i][1] * InchPerFoot,
      x2 |-> ponding_load.snow[i][3] * InchPerFoot]]

\* the model as it stands when create_model raises for want of supports:
\* a new FEModel3D with the material, the section and the two end nodes
PartialModel ==
  [built |-> TRUE, nodes |-> <<0, length * InchPerFoot>>, fixed |-> EmptyMap,
   springs |-> {}, member |-> FALSE, loads |-> <<>>, combos |-> {},
   Iz |-> section_properties.Iz, analyzed |-> 0]

\* an assembly that does not look at the number of supports
create_model_unchecked(ponding_load) ==
  LET nodes == AddSupportNodes(<<0, length * InchPerFoot>>, supports)
      sn    == SupportNodes(nodes, supports)
  IN  [exc |-> "none",
       model |->
         [built |-> TRUE, nodes |-> nodes,
          fixed |-> [n \in DOMAIN sn |-> DefSupportFlags],
          springs |-> SupportSprings(nodes, supports),
          member |-> TRUE,
          loads |-> ModelLoads(ponding_load),
          combos |-> DOMAIN AllCombos,
          Iz |-> section_properties.Iz, analyzed |-> 0],
       support_nodes |-> sn]

\* create_model(ponding_load): the exception, self.model and
\* self.support_nodes it leaves
create_model(ponding_load) ==
  IF Len(supports) = 0
  THEN [exc |-> "ValueError", model |-> PartialModel,
        support_nodes |-> support_nodes]
  ELSE LET nodes == AddSupportNodes(<<0, length * InchPerFoot>>, supports)
           sn    == SupportNodes(nodes, supports)
       IN  [exc |-> "none",
            model |->
              [built |-> TRUE, nodes |-> nodes,
               fixed |-> [n \in DOMAIN sn |-> DefSupportFlags],
               springs |-> SupportSprings(nodes, supports),
               member |-> TRUE,
               loads |-> ModelLoads(ponding_load),
               combos |-> DOMAIN AllCombos,
               Iz |-> section_properties.Iz, analyzed |-> 0],
            support_nodes |-> sn]

(* ---------------------------------------------------------------------- *)
(* The structural solver (Pynite FEModel3D), a linear-elastic black box:    *)
(* the response to a combination is proportional to the combination's load  *)
(* and falls with the section's Iz.                                         *)
(* ---------------------------------------------------------------------- *)

RECURSIVE CaseLoadOf(_, _)
CaseLoadOf(loads, case) ==
  IF loads = <<>> THEN 0
  ELSE (IF Head(loads).case = case THEN Head(loads).w1 + Head(loads).w2 ELSE 0)
       + CaseLoadOf(Tail(loads), case)

\* the load of a registered combination: sum of factor * case load
ComboLoad(m, combo) ==
  SumSeq([k \in 1..6 |->
            (CaseLoadOf(m.loads, Cases[k]) \div 10) * AllCombos[combo][k]])

\* deflected shape on n equally spaced points of a span: 0 at both ends
LocalShape(j, n) == j * (n - 1 - j)

ShapeMax == HalfSegments * HalfSegments

ShapeSum == SumSeq([i \in 1..NumStations |-> LocalShape(i - 1, NumStations)])

\* compliance of the member as a ratio: a stiff section halves the
\* ponding feedback, a flexible one passes 15/16 of it on
Compliance(Iz) == IF Iz >= 5000 THEN <<1, 2>> ELSE <<15, 16>>

\* midspan deflection (mil, positive = sagging) under a combination
Amplitude(m, combo) ==
  LET g == Compliance(m.Iz)
  IN  ((((ComboLoad(m, combo) \div (2 * UnitWeight10)) * ShapeMax)
         \div ShapeSum) * g[1]) \div g[2]

\* an analysis that runs the solver a second time on the same model
Analyze_twice(m) == [m EXCEPT !.analyzed = @ + 2]

\* FEModel3D.analyze()
Analyze(m) == [m EXCEPT !.analyzed = @ + 1]

\* submember.deflection_array('dy', n_points, combo)[1]
DeflectionArray(m, combo, n_points) ==
  LET amplitude == Amplitude(m, combo)
  IN  [j \in 1..n_points |->
         (amplitude * LocalShape(j - 1, n_points)) \div ShapeMax]

\* the lengths of the sub-members of 'M1': the member is split at every
\* node lying strictly between its end nodes 'N1' and 'N2'
SubMemberLengths(m) ==
  LET inner == {m.nodes[i] : i \in DOMAIN m.nodes}
                 \cap ((m.nodes[1] + 1)..(m.nodes[2] - 1))
      pts   == <<m.nodes[1]>> \o SortedSeq(inner) \o <<m.nodes[2]>>
  IN  [k \in 1..(Len(pts) - 1) |-> pts[k + 1] - pts[k]]

\* nodes[node].RxnFY: combination -> vertical reaction
RxnFY(m, node) ==
  [c \in m.combos |-> ComboLoad(m, c) \div Cardinality(DOMAIN m.fixed)]

\* members['M1'].max_moment('Mz', combo), min_moment
MaxMoment(m, combo) == ComboLoad(m, combo) \div 8

MinMoment(m, combo) == 0 - (ComboLoad(m, combo) \div 12)

\* members['M1'].max_deflection('dy', combo), min_deflection
MaxDeflection(m, combo) == Amplitude(m, combo)

MinDeflection(m, combo) == 0

(* ---------------------------------------------------------------------- *)
(* analyze_ponding                                                          *)
(* ---------------------------------------------------------------------- *)

\* the first entry in place of the last one
Last_first(s) == s[1]

\* s[-1]
Last(s) == s[Len(s)]

TotalHead == rain_depth[1] + rain_depth[2]

\* the loop over sub_members: n_points counts the stations between x_0 and
\* x_0 + L, and x_0 is set to the length of the sub-member just read
RECURSIVE ReadDeflection(_, _, _, _)
ReadDeflection(m, combo, lens, x_0) ==
  IF lens = <<>> THEN <<>>
  ELSE LET L == Head(lens)
           n_points == Cardinality(
             {i \in DOMAIN stations :
                /\ stations[i] * InchPerFoot >= x_0
                /\ stations[i] * InchPerFoot <= x_0 + L})
       IN  DeflectionArray(m, combo, n_points)
             \o ReadDeflection(m, combo, Tail(lens), L)

\* numpy broadcasting of station_elevations against a deflection array
Broadcasts(defl) == Len(defl) = Len(station_elevations) \/ Len(defl) = 1

At(defl, i) == IF Len(defl) = 1 THEN defl[1] ELSE defl[i]

\* the head above the deflected surface, not cut off at 0
PondedDepth_unclamped(defl) ==
  [i \in DOMAIN station_elevations |->
     TotalHead - (station_elevations[i] - At(defl, i))]

\* np.where(elev - defl <= head, head - (elev - defl), 0.0)
PondedDepth(defl) ==
  [i \in DOMAIN station_elevations |->
     IF station_elevations[i] - At(defl, i) <= TotalHead
     THEN TotalHead - (station_elevations[i] - At(defl, i))
     ELSE 0]

\* 3 * simpson(y, x) for an odd number of equally spaced x
Simpson3(y, x) ==
  (x[2] - x[1]) *
  SumSeq([i \in DOMAIN y |->
            IF i = 1 \/ i = Len(y) THEN y[i]
            ELSE IF i % 2 = 0 THEN 4 * y[i] ELSE 2 * y[i]])

\* abs(simpson(depth, stations)), a numpy float64
PondedArea(depth) == Abs(Simpson3(depth, stations))

\* the call starts: the histories are cut back to their first entry
BeginAnalyze ==
  /\ CanCall
  /\ ponded_depth_history' = <<ponded_depth_history[1]>>
  /\ deflection_history' = <<deflection_history[1]>>
  /\ iteration' = 0
  /\ ponded_area_stats' = <<[rain |-> 0, snow |-> 0]>>
  /\ rel_err_stats' = <<[rain |-> Num(0, 1), snow |-> Num(0, 1)]>>
  /\ analyze_calls' = 0
  /\ pc' = "loop"
  /\ calls' = calls + 1
  /\ last_op' = "analyze_ponding"
  /\ raised' = "none"
  /\ result' = NoResult
  /\ section_log' = <<>>
  /\ UNCHANGED <<geomVars, inputVars, envelopeVars, support_nodes,
                 analysis_stats, model, valid_results, dz, fixedVars>>

\* if iteration > 1 and both errors < 0.0001
Converged(it, rel_err) ==
  it > 1 /\ BelowTol(rel_err.rain) /\ BelowTol(rel_err.snow)

\* a cap that stops one iteration early
GivesUp_early(it, rel_err) ==
  it > 1 /\ ~Converged(it, rel_err) /\ it >= MaxIterations

\* elif iteration > 50 (reached only when iteration > 1)
GivesUp(it, rel_err) ==
  it > 1 /\ ~Converged(it, rel_err) /\ it > MaxIterations

\* analyze the model create_model built and read the deflections back
SolveAndRead(cm) ==
  LET m    == Analyze(cm.model)
      lens == SubMemberLengths(m)
  IN  [model |-> m,
       defl  |-> [rain |-> ReadDeflection(m, "1.0D+1.0R+1.0P", lens, 0),
                  snow |-> ReadDeflection(m, "1.0D+1.0S+1.0P", lens, 0)]]

\* the new ponded depth, its area and the relative error of iteration it
DepthUpdate(it, defl) ==
  LET depth == [rain |-> PondedDepth(defl.rain),
                snow |-> PondedDepth(defl.snow)]
      rain_area == PondedArea(depth.rain)
      snow_area == PondedArea(depth.snow)
  IN  [depth |-> depth,
       ponded_area |-> [rain |-> rain_area, snow |-> snow_area],
       rel_err |->
         [rain |-> divide_by_zero(
                     Abs(rain_area - ponded_area_stats[it].rain),
                     rain_area, TRUE),
          snow |-> divide_by_zero(
                     Abs(snow_area - ponded_area_stats[it].snow),
                     snow_area, TRUE)]]

\* one pass of the while loop, up to the convergence test
Iterate ==
  /\ pc = "loop"
  /\ \E it \in {iteration + 1} :
     \E cm \in {create_model(calc_ponding_load(Last(ponded_depth_history)))} :
       /\ iteration' = it
       /\ IF cm.exc # "none"
          \* create_model raises: no supports
          THEN /\ model' = cm.model
               /\ raised' = cm.exc
               /\ pc' = "idle"
               /\ UNCHANGED <<support_nodes, deflection_history,
                              ponded_depth_history, ponded_area_stats,
                              rel_err_stats, valid_results, analyze_calls>>
          ELSE \E r \in {SolveAndRead(cm)} :
               /\ model' = r.model
               /\ analyze_calls' = analyze_calls + 1
               /\ support_nodes' = cm.support_nodes
               /\ deflection_history' = Append(deflection_history, r.defl)
               /\ IF ~Broadcasts(r.defl.rain) \/ ~Broadcasts(r.defl.snow)
                  \* station_elevations - deflection cannot be formed
                  THEN /\ raised' = "ValueError"
                       /\ pc' = "idle"
                       /\ UNCHANGED <<ponded_depth_history, ponded_area_stats,
                                      rel_err_stats, valid_results>>
                  ELSE \E b \in {DepthUpdate(it, r.defl)} :
                       /\ ponded_depth_history' =
                            Append(ponded_depth_history, b.depth)
                       /\ ponded_area_stats' =
                            Append(ponded_area_stats, b.ponded_area)
                       /\ rel_err_stats' = Append(rel_err_stats, b.rel_err)
                       /\ IF Converged(it, b.rel_err)
                          THEN /\ valid_results' = TRUE
                               /\ pc' = "extract"
                               /\ raised' = raised
                          ELSE IF GivesUp(it, b.rel_err)
                          THEN /\ raised' = "RuntimeWarning"
                               /\ pc' = "idle"
                               /\ valid_results' = valid_results
                          ELSE /\ pc' = "loop"
                               /\ raised' = raised
                               /\ valid_results' = valid_results
  /\ UNCHANGED <<geomVars, inputVars, envelopeVars, analysis_stats, calls,
                 last_op, result, section_log, dz, fixedVars>>

\* the envelope of one family of names, read from the converged model
EnvelopeOf(names, value(_)) == [c \in names |-> value(c)]

\* an extraction that refreshes the nodes already recorded and adds none
ReactionEnvelopeAfter_known(envelope, nodes, m) ==
  [n \in DOMAIN envelope |->
     IF n \in nodes THEN RxnFY(m, n) ELSE envelope[n]]

\* for node in self.support_nodes: self.reaction_envelope[node] = RxnFY
ReactionEnvelopeAfter(envelope, nodes, m) ==
  [n \in DOMAIN envelope \cup nodes |->
     IF n \in nodes THEN RxnFY(m, n) ELSE envelope[n]]

\* the extraction after convergence, the break and the analysis_stats
Extract ==
  /\ pc = "extract"
  /\ reaction_envelope' =
       ReactionEnvelopeAfter(reaction_envelope, DOMAIN support_nodes, model)
  /\ LET maxM(c) == MaxMoment(model, c)
         minM(c) == MinMoment(model, c)
         maxD(c) == (-1) * MinDeflection(model, c)
         minD(c) == (-1) * MaxDeflection(model, c)
         all(value(_)) ==
           [cases |-> EnvelopeOf(DOMAIN load_cases, value),
            asd   |-> EnvelopeOf(DOMAIN load_combinations.asd, value),
            lrfd  |-> EnvelopeOf(DOMAIN load_combinations.lrfd, value)]
     IN  /\ max_moment_envelope' = all(maxM)
         /\ min_moment_envelope' = all(minM)
         /\ max_defl_envelope' = all(maxD)
         /\ min_defl_envelope' = all(minD)
  /\ analysis_stats' = [iterations |-> iteration,
                        ponded_area |-> ponded_area_stats,
                        rel_err |-> rel_err_stats, set |-> TRUE]
  /\ pc' = "idle"
  /\ UNCHANGED <<geomVars, inputVars, support_nodes, model,
                 ponded_depth_history, deflection_history, iteration,
                 ponded_area_stats, rel_err_stats, analyze_calls,
                 valid_results, callVars, dz, fixedVars>>

(* ---------------------------------------------------------------------- *)
(* reaction_envelope_at_node                                                *)
(* ---------------------------------------------------------------------- *)

reaction_envelope_at_node(node, combo_type) ==
  /\ CanCall
  /\ calls' = calls + 1
  /\ last_op' = "reaction_envelope_at_node"
  /\ section_log' = <<>>
  /\ IF combo_type \notin {"asd", "lrfd"}
     THEN raised' = "ValueError" /\ result' = NoResult
     ELSE IF node \notin DOMAIN support_nodes
     THEN raised' = "ValueError" /\ result' = NoResult
     ELSE IF node \notin DOMAIN reaction_envelope
     \* self.reaction_envelope[node]
     THEN raised' = "KeyError" /\ result' = NoResult
     ELSE /\ raised' = "none"
          /\ result' =
               [kind |-> "dict", node |-> node, combo_type |-> combo_type,
                value |->
                  [c \in DOMAIN reaction_envelope[node]
                           \cap DOMAIN load_combinations[combo_type] |->
                     reaction_envelope[node][c]]]
  /\ UNCHANGED <<geomVars, inputVars, envelopeVars, runVars, valid_results,
                 pc, dz, fixedVars>>

(* ---------------------------------------------------------------------- *)
(* Specification                                                            *)
(* ---------------------------------------------------------------------- *)

Next ==
  \/ \E loc \in SupportLocations, k \in SpringConstants :
       add_support(loc, k[1], k[2], k[3])
  \/ \E i \in SupportIndices2 : delete_support(i)
  \/ \E s \in SlopeInputs : add_or_update_beam_slope(s)
  \/ \E l \in DistLoadInputs : add_dist_load(l[1], l[2], l[3], l[4], l[5])
  \/ \E i \in ListIndices : delete_dist_load(i)
  \/ \E c \in CaseInputs : clear_dist_loads(c)
  \/ \E l \in PointLoadInputs : add_point_load(l[1], l[2], l[3])
  \/ \E i \in ListIndices : delete_point_load(i)
  \/ \E c \in CaseInputs : clear_point_loads(c)
  \/ \E rd \in RainDepthInputs, auto \in BOOLEAN :
       add_or_update_rain_load(rd, auto)
  \/ \E w \in WidthInputs : add_or_update_tributary_width(w)
  \/ \E s \in SectionInputs : add_or_update_section(s)
  \/ BeginAnalyze
  \/ Iterate
  \/ Extract
  \/ \E n \in NodeInputs, t \in ComboTypeInputs :
       reaction_envelope_at_node(n, t)

Spec == Init /\ [][Next]_vars

(* ---------------------------------------------------------------------- *)
(* The Beam as the command-line menus drive it: the same calls, and the     *)
(* "Assign Beam Length" entry, which assigns beam.length directly           *)
(* ---------------------------------------------------------------------- *)

LengthInputs == {12, 24}

CliSectionInputs == {"W12X14", "10K1"}

CliDistLoad == <<0, 12, 100000, 100000, "D">>

CliPointLoad == <<6, 100000, "D">>

CliRainDepth == <<20000, 10000>>

CliSlope == 5000

\* an assignment that cuts the beam into segments again
assign_length_resegment(len) ==
  /\ CanCall
  /\ length' = len
  /\ stations' = SegmentBeam(len)
  /\ calls' = calls + 1
  /\ last_op' = "assign_length"
  /\ raised' = "none"
  /\ result' = NoResult
  /\ UNCHANGED <<section_log, inputVars, envelopeVars, runVars,
                 valid_results, pc, dz, fixedVars>>

\* beam.length = float(length)
assign_length(len) ==
  /\ CanCall
  /\ length' = len
  /\ calls' = calls + 1
  /\ last_op' = "assign_length"
  /\ raised' = "none"
  /\ result' = NoResult
  /\ UNCHANGED <<section_log, stations, inputVars, envelopeVars, runVars,
                 valid_results, pc, dz, fixedVars>>

InitCli ==
  /\ \E len \in LengthInputs : BeamCreated(len)
  /\ dz = NoDivide
  /\ call_limit = MaxCalls

NextCli ==
  \/ \E len \in LengthInputs : assign_length(len)
  \/ \E k \in SpringConstants : add_support(0, k[1], k[2], k[3])
  \/ delete_support(0)
  \/ add_or_update_beam_slope(CliSlope)
  \/ add_dist_load(CliDistLoad[1], CliDistLoad[2], CliDistLoad[3],
                   CliDistLoad[4], CliDistLoad[5])
  \/ delete_dist_load(0)
  \/ clear_dist_loads("D")
  \/ add_point_load(CliPointLoad[1], CliPointLoad[2], CliPointLoad[3])
  \/ delete_point_load(0)
  \/ clear_point_loads("D")
  \/ add_or_update_rain_load(CliRainDepth, TRUE)
  \/ add_or_update_tributary_width(1)
  \/ \E sec \in CliSectionInputs : add_or_update_section(sec)
  \/ BeginAnalyze
  \/ Iterate
  \/ Extract
  \/ \E t \in {"asd", "lrfd"} : reaction_envelope_at_node(1, t)

SpecCli == InitCli /\ [][NextCli]_vars

(* ---------------------------------------------------------------------- *)
(* The support layout on its own: supports before the beam, at either end   *)
(* of it and beyond it, added, deleted and analyzed                         *)
(* ---------------------------------------------------------------------- *)

LayoutLocations == {-1, 0, 12, 13}

MaxLayoutCalls == 6

InitLayout == BeamInit /\ dz = NoDivide /\ call_limit = MaxLayoutCalls

NextLayout ==
  \/ \E loc \in LayoutLocations, k \in SpringConstants :
       add_support(loc, k[1], k[2], k[3])
  \/ \E i \in ListIndices : delete_support(2 * i)
  \/ add_dist_load(CliDistLoad[1], CliDistLoad[2], CliDistLoad[3],
                   CliDistLoad[4], CliDistLoad[5])
  \/ BeginAnalyze
  \/ Iterate
  \/ Extract

SpecLayout == InitLayout /\ [][NextLayout]_vars

(* ---------------------------------------------------------------------- *)
(* divide_by_zero called on its own, with built-in numbers (add_or_update_  *)
(* rain_load) or with numpy float64 scalars (analyze_ponding)               *)
(* ---------------------------------------------------------------------- *)

Numerators == -4..5

Denominators == -3..3

InitDivide ==
  /\ BeamInit
  /\ dz \in [a : Numerators, b : Denominators, numpy : BOOLEAN,
           out : {NoResult}]
  /\ call_limit = MaxCalls

Divide ==
  /\ dz.out = NoResult
  /\ dz' = [dz EXCEPT !.out = divide_by_zero(dz.a, dz.b, dz.numpy)]
  /\ UNCHANGED <<geomVars, inputVars, envelopeVars, runVars, valid_results,
                 pc, callVars, fixedVars>>

SpecDivide == InitDivide /\ [][Divide]_vars

(* ---------------------------------------------------------------------- *)
(* Properties                                                               *)
(* ---------------------------------------------------------------------- *)

MutatorNames ==
  {"add_support", "delete_support", "add_dist_load", "delete_dist_load",
   "clear_dist_loads", "add_point_load", "delete_point_load",
   "clear_point_loads", "add_or_update_beam_slope",
   "add_or_update_tributary_width", "add_or_update_rain_load",
   "add_or_update_section"}

\* the last call was analyze_ponding and it has ended
RunEnded == last_op = "analyze_ponding" /\ pc = "idle"

\* C1: every mutator call that returns leaves valid_results = false,
\* whatever it was before and whatever the input.
C1_MutatorsInvalidate ==
  [][(calls' = calls + 1 /\ last_op' \in MutatorNames /\ raised' = "none")
       => valid_results' = FALSE]_vars

\* C1 witness: a mutator has returned on a beam whose last analysis had
\* converged (analysis_stats is set only together with valid_results = true).
C1_Witness ==
  /\ last_op \in MutatorNames
  /\ raised = "none"
  /\ analysis_stats.set
  /\ reaction_envelope # EmptyMap
  /\ ~valid_results

\* an error below 1e-4, stated on the fraction n/d
SmallError(x) ==
  x.kind = "num" /\ x.n <= x.d \div 10000 /\ x.n * 10000 < x.d

\* C2: a pass of the loop declares convergence exactly when its iteration
\* number is at least 2 and both relative errors are below 1e-4; it then
\* does not go on to another pass.
C2_ConvergenceTest ==
  [][(pc = "loop" /\ Len(rel_err_stats') = Len(rel_err_stats) + 1)
       => /\ (pc' = "extract" /\ valid_results')
               <=> (/\ iteration' >= 2
                    /\ SmallError(Last(rel_err_stats').rain)
                    /\ SmallError(Last(rel_err_stats').snow))
          /\ (pc' = "extract" => iteration' # 1)
          /\ (pc' = "loop"
                => ~(/\ iteration' >= 2
                     /\ SmallError(Last(rel_err_stats').rain)
                     /\ SmallError(Last(rel_err_stats').snow)))]_vars

\* C2 witness: convergence declared on errors that are small but not zero.
C2_Witness ==
  /\ pc = "extract"
  /\ iteration >= 2
  /\ Last(rel_err_stats).rain.n > 0
  /\ Last(rel_err_stats).snow.n > 0

\* C3: the loop never starts a 52nd pass, and the convergence failure is
\* raised only at iteration 51, after exactly 51 solver analyses.
C3_FailureAfter51 ==
  /\ (pc = "loop" => iteration <= 50)
  /\ (raised = "RuntimeWarning"
        => RunEnded /\ iteration = 51 /\ analyze_calls = 51)

\* C3 witness: an under-stiff beam with water on it has given up.
C3_Witness ==
  /\ RunEnded
  /\ raised = "RuntimeWarning"
  /\ Last(ponded_area_stats).rain > 0
  /\ Last(rel_err_stats).rain.kind = "num"

\* C4 (as claimed): on a beam with a support, analyze_ponding ends either
\* converged at an iteration between 2 and 51 or with the convergence
\* failure, and never runs more than 51 iterations.
C4_EndsConvergedOrFailed ==
  /\ iteration <= 51
  /\ (RunEnded /\ Len(supports) >= 1)
       => \/ raised = "none" /\ valid_results /\ iteration \in 2..51
          \/ raised = "RuntimeWarning"

\* C5: the envelope maps change only in the extraction of a converged run.
C5_EnvelopesOnlyOnConvergence ==
  [][envelopeVars' # envelopeVars
       => (pc = "extract" /\ valid_results /\ pc' = "idle"
           /\ raised' = "none")]_vars

\* C5 witness: a run has ended in convergence failure on a beam that still
\* carries the envelopes of an earlier converged run.
C5_Witness ==
  /\ RunEnded
  /\ raised = "RuntimeWarning"
  /\ reaction_envelope # EmptyMap
  /\ max_moment_envelope.cases # EmptyMap

CaseNames == {"1.0D", "1.0Lr", "1.0R", "1.0PR", "1.0S", "1.0PS"}

AsdNames == {"1.0D+1.0Lr", "1.0D+1.0R", "1.0D+1.0R+1.0P", "1.0D+1.0S",
             "1.0D+1.0S+1.0P"}

LrfdNames == {"1.4D", "1.2D+1.6Lr", "1.2D+1.6R", "1.2D+1.6R+1.6P",
              "1.2D+1.6S", "1.2D+1.6S+1.6P"}

FullEnvelope(e) ==
  /\ DOMAIN e.cases = CaseNames
  /\ DOMAIN e.asd = AsdNames
  /\ DOMAIN e.lrfd = LrfdNames

\* C6: when analyze_ponding returns, valid_results is true, every support
\* node of the final model has a reaction entry and the four moment and
\* deflection envelopes hold the 6 cases, 5 ASD and 6 LRFD combinations.
C6_ConvergedEnvelopes ==
  (RunEnded /\ raised = "none")
    => /\ valid_results
       /\ DOMAIN model.fixed = DOMAIN support_nodes
       /\ DOMAIN support_nodes \subseteq DOMAIN reaction_envelope
       /\ FullEnvelope(max_moment_envelope)
       /\ FullEnvelope(min_moment_envelope)
       /\ FullEnvelope(max_defl_envelope)
       /\ FullEnvelope(min_defl_envelope)

\* C6 witness: a run that needed more than two iterations has returned and
\* every support node carries the reactions of all 17 names.
C6_Witness ==
  /\ RunEnded
  /\ raised = "none"
  /\ iteration > 2
  /\ support_nodes # EmptyMap
  /\ \A n \in DOMAIN support_nodes :
       DOMAIN reaction_envelope[n] = CaseNames \cup AsdNames \cup LrfdNames

\* C7 (as claimed): reaction_envelope_at_node either returns the recorded
\* reactions of the asked family, and only those, or raises ValueError.
C7_QueryReturnsOrValueError ==
  last_op = "reaction_envelope_at_node"
    => \/ raised = "ValueError"
       \/ /\ raised = "none"
          /\ result.node \in DOMAIN support_nodes
          /\ DOMAIN result.value =
               IF result.combo_type = "asd" THEN AsdNames ELSE LrfdNames
          /\ \A c \in DOMAIN result.value :
               result.value[c] = reaction_envelope[result.node][c]

\* no loads and no rain
ZeroScenario ==
  dist_loads = <<>> /\ point_loads = <<>> /\ rain_depth = <<0, 0>>

\* C8 (as claimed): with no loads and no rain the ponded depth after the
\* first iteration is 0 at every station and the run has converged by
\* iteration 2.
C8_ZeroScenarioConverges ==
  (last_op = "analyze_ponding" /\ raised = "none" /\ ZeroScenario)
    => /\ Len(ponded_depth_history) >= 2
            => \A i \in 1..NumStations :
                 /\ ponded_depth_history[2].rain[i] = 0
                 /\ ponded_depth_history[2].snow[i] = 0
       /\ iteration >= 2 => pc # "loop"

\* C9 (as claimed): a track whose current ponded area is zero has the
\* relative error +infinity; no fault ends the run and convergence is not
\* declared at that iteration.
C9_ZeroAreaIsInfinity ==
  \A t \in {"rain", "snow"} :
    (Len(ponded_area_stats) >= 2 /\ Last(ponded_area_stats)[t] = 0)
      => /\ Last(rel_err_stats)[t] = Inf
         /\ pc # "extract"
         /\ last_op = "analyze_ponding" => raised \in {"none", "RuntimeWarning"}

\* C10 (as claimed): divide_by_zero(a, b) is a/b for b # 0 and +infinity for b = 0,
\* also for a = 0, and never raises.
C10_DivideByZero ==
  dz.out # NoResult
    => /\ dz.out.kind # "ZeroDivisionError"
       /\ dz.b # 0 => /\ dz.out.kind = "num"
                      /\ dz.out.n * dz.b = dz.a * dz.out.d
       /\ dz.b = 0 => dz.out.kind = "inf"

\* stations as _segment_beam leaves them for a beam of length len
WellSegmented(len) ==
  /\ Len(stations) = NumStations
  /\ stations[1] = 0
  /\ stations[NumStations] = len
  /\ \A i \in 1..(NumStations - 1) : stations[i] < stations[i + 1]

\* C11: a new Beam has one station per segment end (the code: 101),
\* strictly increasing from 0 to length, and no later step, a mutator, an
\* analysis or an assignment of length, changes the stations.
C11_StationsFixed ==
  /\ WellSegmented(length)
  /\ [][stations' = stations]_vars

\* C11 witness: an analysis has returned on a beam whose length was assigned
\* after creation; the stations still span the length it was created with.
C11_Witness ==
  /\ RunEnded
  /\ raised = "none"
  /\ length # stations[NumStations]
  /\ model.nodes[2] = length * InchPerFoot
  /\ \E len \in LengthInputs : WellSegmented(len)

\* a position on the beam
OnBeam(x) == 0 <= x /\ x <= length

\* every stored load has a user case and lies on the beam
StoredLoadsValid ==
  /\ \A i \in DOMAIN dist_loads :
       /\ dist_loads[i][5] \in UserCases
       /\ OnBeam(dist_loads[i][1])
       /\ OnBeam(dist_loads[i][2])
  /\ \A i \in DOMAIN point_loads :
       /\ point_loads[i][3] \in UserCases
       /\ OnBeam(point_loads[i][1])

\* the arguments of add_dist_load name a position off the beam or a case
\* that is not a user case
BadDistLoad(ld) ==
  ~OnBeam(ld[1]) \/ ~OnBeam(ld[2]) \/ ld[5] \notin UserCases

BadPointLoad(pl) == ~OnBeam(pl[1]) \/ pl[3] \notin UserCases

\* the call raised ValueError and stored nothing
RejectedLoad ==
  /\ raised' = "ValueError"
  /\ dist_loads' = dist_loads
  /\ point_loads' = point_loads

RainLoadsOf(loads) == SelectSeq(loads, LAMBDA l : l[5] = "R")

\* where the installed rain load stops: at the lesser of length and
\* total head / slope, at length on a flat beam
StopsAtWaterline(stop, head) ==
  IF beam_slope = 0 \/ head > length * beam_slope
  THEN stop = length
  ELSE stop * beam_slope = head

\* the step replaced every 'R' load by the one rain load and kept the rest
RainLoadInstalled(rd) ==
  /\ Len(RainLoadsOf(dist_loads')) = 1
  /\ RainLoadsOf(dist_loads')[1][1] = 0
  /\ StopsAtWaterline(RainLoadsOf(dist_loads')[1][2], rd[1] + rd[2])
  /\ WithoutCase(dist_loads', 5, "R") = WithoutCase(dist_loads, 5, "R")
  /\ point_loads' = point_loads

\* C13: add_or_update_rain_load(depth, auto_add_dist_load = true) leaves
\* exactly one distributed load of case 'R', from 0 to the lesser of length
\* and total head / slope (the full length when the slope is 0), with every
\* load of another case and every point load unchanged and in order; with
\* auto_add_dist_load = false both load lists are unchanged.
C13_RainLoadFrame ==
  [][\A rd \in RainDepthInputs :
       /\ (add_or_update_rain_load(rd, TRUE) /\ raised' = "none")
            => RainLoadInstalled(rd)
       /\ (add_or_update_rain_load(rd, FALSE) /\ raised' = "none")
            => (dist_loads' = dist_loads /\ point_loads' = point_loads)]_vars

\* C13 witness: the rain load was installed on a sloped beam that keeps a
\* dead load and a point load; it stops short of the far end.
C13_Witness ==
  /\ last_op = "add_or_update_rain_load"
  /\ raised = "none"
  /\ beam_slope > 0
  /\ Len(dist_loads) = 2
  /\ dist_loads[1][5] = "D"
  /\ dist_loads[2][5] = "R"
  /\ dist_loads[2][2] < length
  /\ point_loads # <<>>

\* C14: with no supports the model assembly fails with ValueError:
\* analyze_ponding ends in its first iteration, before any call of the
\* solver's analyze, without setting valid_results and without writing an
\* envelope.
C14_NoSupportsFails ==
  [][(pc = "loop" /\ supports = <<>>)
       => /\ create_model(calc_ponding_load(Last(ponded_depth_history))).exc
               = "ValueError"
          /\ raised' = "ValueError"
          /\ pc' = "idle"
          /\ iteration' = 1
          /\ analyze_calls' = 0
          /\ ~valid_results'
          /\ envelopeVars' = envelopeVars]_vars

\* C14 witness: a beam that converged once lost its support; the next run
\* failed in create_model and the moment envelope of the earlier run is
\* still there.
C14_Witness ==
  /\ RunEnded
  /\ supports = <<>>
  /\ raised = "ValueError"
  /\ analyze_calls = 0
  /\ max_moment_envelope # EmptyEnvelope

\* C15: a mutator that rejects its input (out of range, wrong number of
\* elements, wrong case) raises ValueError or TypeError and no other kind of
\* fault; add_or_update_rain_load does so for every rain_depth whose number
\* of elements is not 2.
C15_OnlyValidationErrors ==
  last_op \in MutatorNames => raised \in {"none", "ValueError", "TypeError"}

\* C16: add_or_update_section is idempotent: called twice in a row with the
\* same designation, the length unchanged in between, it leaves the same
\* section and the same section_properties {A, Iy, Iz, J} as one call.
C16_SectionIdempotent ==
  /\ \A i \in 1..(Len(section_log) - 1) :
       (/\ section_log[i].section = section_log[i + 1].section
        /\ section_log[i].length = section_log[i + 1].length)
       => section_log[i].properties = section_log[i + 1].properties
  /\ \A i \in DOMAIN section_log :
       DOMAIN section_log[i].properties = {"A", "Iy", "Iz", "J"}
  /\ (last_op = "add_or_update_section" /\ raised = "none")
       => /\ section_log # <<>>
          /\ Last(section_log).section = section
          /\ Last(section_log).properties = section_properties

\* C16 witness: the joist 10K1 was assigned twice in a row to a beam of the
\* same length.
C16_Witness ==
  /\ Len(section_log) >= 2
  /\ section_log[Len(section_log)].section = "10K1"
  /\ section_log[Len(section_log) - 1].section = "10K1"
  /\ section_log[Len(section_log)].length
       = section_log[Len(section_log) - 1].length
  /\ section = "10K1"

\* the greater of two numbers
Max(a, b) == IF a >= b THEN a ELSE b

\* C17: in every analyze_ponding run the seed entry (iteration 0) of
\* ponded_depth_history is, for the rain and the snow track and at every
\* station, max(total head - station elevation, 0), from the rain_depth and
\* the slope the Beam has at that time.
C17_SeedFromRainDepth ==
  last_op = "analyze_ponding"
    => \A i \in DOMAIN stations :
         /\ ponded_depth_history[1].rain[i]
              = Max(TotalHead - station_elevations[i], 0)
         /\ ponded_depth_history[1].snow[i]
              = Max(TotalHead - station_elevations[i], 0)

\* C18: valid_results becomes true only after the envelopes of the run are
\* written: in no reachable state is valid_results true while a support node
\* lacks its reaction or one of the four envelopes lacks a name.
C18_ValidAfterExtraction ==
  valid_results
    => /\ DOMAIN support_nodes \subseteq DOMAIN reaction_envelope
       /\ FullEnvelope(max_moment_envelope)
       /\ FullEnvelope(min_moment_envelope)
       /\ FullEnvelope(max_defl_envelope)
       /\ FullEnvelope(min_defl_envelope)

\* C19: for every support layout, interior supports included, the rain and
\* the snow deflection array appended in an iteration hold exactly one value
\* per station (the code: 101).
C19_OneDeflectionPerStation ==
  \A k \in 2..Len(deflection_history) :
    /\ Len(deflection_history[k].rain) = Len(stations)
    /\ Len(deflection_history[k].snow) = Len(stations)

\* the height of the deflected surface at station i
Surface(defl, i) == station_elevations[i] - At(defl, i)

\* depth = max(total head - (elevation - deflection), 0), never negative
DepthIsClampedHead(depth, defl) ==
  \A i \in DOMAIN stations :
    /\ depth[i] = Max(TotalHead - Surface(defl, i), 0)
    /\ depth[i] >= 0

\* C20 (as claimed): the ponded depth stored in an iteration is, at every
\* station and on both tracks, max(total_head - (station_elevation -
\* deflection), 0), so it is never negative and it is 0 exactly where the
\* deflected surface lies above the datum total_head.
C20_ZeroExactlyAbove ==
  last_op = "analyze_ponding"
    => \A k \in 2..Len(ponded_depth_history) :
         /\ DepthIsClampedHead(ponded_depth_history[k].rain,
                               deflection_history[k].rain)
         /\ DepthIsClampedHead(ponded_depth_history[k].snow,
                               deflection_history[k].snow)
         /\ \A i \in DOMAIN stations :
              /\ ponded_depth_history[k].rain[i] = 0
                   <=> Surface(deflection_history[k].rain, i) > TotalHead
              /\ ponded_depth_history[k].snow[i] = 0
                   <=> Surface(deflection_history[k].snow, i) > TotalHead

\* C20 (amended): the ponded depth stored in an iteration is, at every
\* station and on both tracks, max(total_head - (station_elevation -
\* deflection), 0), so it is never negative and it is 0 exactly where the
\* deflected surface lies at or above the datum total_head.
C20_DepthFromDeflection ==
  last_op = "analyze_ponding"
    => \A k \in 2..Len(ponded_depth_history) :
         /\ DepthIsClampedHead(ponded_depth_history[k].rain,
                               deflection_history[k].rain)
         /\ DepthIsClampedHead(ponded_depth_history[k].snow,
                               deflection_history[k].snow)
         /\ \A i \in DOMAIN stations :
              /\ ponded_depth_history[k].rain[i] = 0
                   <=> Surface(deflection_history[k].rain, i) >= TotalHead
              /\ ponded_depth_history[k].snow[i] = 0
                   <=> Surface(deflection_history[k].snow, i) >= TotalHead

\* C20 witness: a run has stored a depth that is positive at one station
\* and 0 at a station whose deflected surface is level with the datum.
C20_Witness ==
  /\ RunEnded
  /\ Len(ponded_depth_history) >= 3
  /\ \E i \in DOMAIN stations : Last(ponded_depth_history).rain[i] > 0
  /\ \E i \in DOMAIN stations :
       /\ Last(ponded_depth_history).rain[i] = 0
       /\ Surface(Last(deflection_history).rain, i) = TotalHead

\* the loads of one case among the loads handed to the solver, in order
LoadsOfCase(loads, case) == SelectSeq(loads, LAMBDA l : l.case = case)

\* the loads of a case are one segment per pair of adjacent stations, from
\* station k to station k + 1, with 5.2 times the depth at each end (the
\* load handed to the solver is that intensity on the tributary width)
SegmentsOfDepth(loads, case, depth) ==
  LET rows == LoadsOfCase(loads, case)
  IN  /\ Len(rows) = Len(stations) - 1
      /\ \A k \in DOMAIN rows :
           /\ rows[k].kind = "dist"
           /\ rows[k].x1 = stations[k] * InchPerFoot
           /\ rows[k].x2 = stations[k + 1] * InchPerFoot
           /\ rows[k].w1 = UnitWeight10 * depth[k] * tributary_width
           /\ rows[k].w2 = UnitWeight10 * depth[k + 1] * tributary_width

\* C21: the ponding load applied in iteration i is computed from the last
\* entry of ponded_depth_history, the depth appended in iteration i - 1 (the
\* seed for i = 1), never from an older entry; per track it has one segment
\* per pair of adjacent stations (the code: 100), segment k from station k
\* to station k + 1 with 5.2 times the depth at those stations, tagged PR
\* for rain and PS for snow.
C21_PondingLoadFromLastDepth ==
  [][(pc = "loop" /\ supports # <<>>)
       => /\ iteration' = iteration + 1
          /\ Len(ponded_depth_history) = iteration + 1
          /\ SegmentsOfDepth(model'.loads, "PR",
                             ponded_depth_history[iteration + 1].rain)
          /\ SegmentsOfDepth(model'.loads, "PS",
                             ponded_depth_history[iteration + 1].snow)]_vars

\* C21 witness: the third or a later iteration has built its model from a
\* rain depth that differs from the seed and from the depth before it, on a
\* beam with a tributary width.
C21_Witness ==
  /\ last_op = "analyze_ponding"
  /\ iteration >= 3
  /\ tributary_width > 0
  /\ Len(ponded_depth_history) = iteration + 1
  /\ ponded_depth_history[iteration].rain # ponded_depth_history[1].rain
  /\ ponded_depth_history[iteration].rain
       # ponded_depth_history[iteration - 1].rain
  /\ SegmentsOfDepth(model.loads, "PR", ponded_depth_history[iteration].rain)

\* C22: analyze_ponding cuts both histories back to the seed entry and every
\* iteration appends exactly one entry to each: after n iterations both
\* histories have n + 1 entries, whatever earlier runs left, and on
\* convergence analysis_stats holds iterations = n with ponded-area and
\* relative-error histories of n + 1 entries.
C22_OneEntryPerIteration ==
  /\ Len(ponded_depth_history) = Len(deflection_history)
  /\ (last_op = "analyze_ponding" /\ pc \in {"loop", "extract"})
       => Len(ponded_depth_history) = iteration + 1
  /\ (RunEnded /\ raised = "none")
       => /\ Len(ponded_depth_history) = iteration + 1
          /\ analysis_stats.iterations = iteration
          /\ Len(analysis_stats.ponded_area) = iteration + 1
          /\ Len(analysis_stats.rel_err) = iteration + 1

\* the envelope e holds, for every name, the value read from the model m
ReadFrom(e, m, value(_, _)) ==
  /\ \A c \in DOMAIN e.cases : e.cases[c] = value(m, c)
  /\ \A c \in DOMAIN e.asd : e.asd[c] = value(m, c)
  /\ \A c \in DOMAIN e.lrfd : e.lrfd[c] = value(m, c)

\* C23: every iteration builds a new solver model from the Beam as it is and
\* runs analyze on it exactly once: no model is analyzed twice or carried
\* into a later iteration, and the envelopes are read from the model built in
\* the converging iteration.
C23_FreshModelPerIteration ==
  /\ [](model.analyzed <= 1)
  /\ [][(pc = "loop" /\ supports # <<>>)
          => /\ model'.analyzed = 1
             /\ analyze_calls' = analyze_calls + 1
             /\ analyze_calls' = iteration'
             /\ [model' EXCEPT !.analyzed = 0]
                  = create_model(
                      calc_ponding_load(
                        ponded_depth_history[Len(ponded_depth_history)])).model
       ]_vars
  /\ [][pc = "extract"
          => /\ model' = model
             /\ model.analyzed = 1
             /\ analyze_calls = iteration
             /\ ReadFrom(max_moment_envelope', model, MaxMoment)
             /\ ReadFrom(min_moment_envelope', model, MinMoment)
             /\ \A n \in DOMAIN support_nodes :
                  reaction_envelope'[n] = RxnFY(model, n)]_vars

\* C23 witness: a run of three or more iterations has converged; the model
\* it leaves was analyzed once and carries the ponding load of the last
\* iteration, which the first iteration's model did not carry.
C23_Witness ==
  /\ RunEnded
  /\ raised = "none"
  /\ iteration >= 3
  /\ analyze_calls = iteration
  /\ model.analyzed = 1
  /\ model.loads = ModelLoads(calc_ponding_load(
                                ponded_depth_history[iteration]))
  /\ model.loads # ModelLoads(calc_ponding_load(ponded_depth_history[1]))
  /\ FullEnvelope(max_moment_envelope)

\* C24: at the node of every support create_model fixes the vertical
\* translation (DY) and the in-plane rotation (RZ), whatever the support's
\* spring constants are.
C24_SupportsFixDYAndRZ ==
  \A n \in DOMAIN model.fixed : model.fixed[n].DY /\ model.fixed[n].RZ

\* C25: after any sequence of add_support and delete_support calls every
\* stored support has a location in [0, length]; add_support rejects a
\* location below 0 and a location above length.
C25_SupportsOnBeam ==
  \A i \in DOMAIN supports : OnBeam(supports[i][1])

\* C28: after a converging analyze_ponding the nodes keyed in
\* reaction_envelope are exactly the keys of support_nodes, the support
\* nodes of the final model, whatever supports were added, deleted and
\* analyzed before: no reaction of a node that is no longer a support
\* survives.
C28_ReactionsOfCurrentSupports ==
  (RunEnded /\ raised = "none")
    => DOMAIN reaction_envelope = DOMAIN support_nodes

\* C26: whenever analyze_ponding ends by raising, valid_results is false
\* afterwards, whatever it was when the run started; valid_results = true
\* therefore means that the most recent analyze_ponding run converged.
C26_FailedRunInvalidates ==
  (RunEnded /\ raised # "none") => ~valid_results

\* C27: after a successful analysis, assigning the beam length in the Beam
\* Definition menu makes valid_results false, like every other change of an
\* analysis input.
C27_LengthInvalidates ==
  [][(last_op' = "assign_length" /\ calls' = calls + 1)
       => ~valid_results']_vars

\* C29: whenever analysis_stats is set and no run is in progress it
\* describes the most recent analyze_ponding run: its iterations equal
\* len(ponded_depth_history) - 1 and len(deflection_history) - 1, also after
\* a run that ended in failure.
C29_StatsOfLastRun ==
  (analysis_stats.set /\ pc = "idle")
    => /\ analysis_stats.iterations = Len(ponded_depth_history) - 1
       /\ analysis_stats.iterations = Len(deflection_history) - 1

\* C30: when a mutator raises, the Beam is exactly as it was before the
\* call: supports, dist_loads, point_loads, section, section_properties,
\* beam_slope, station_elevations, tributary_width, rain_depth and
\* valid_results are unchanged.
C30_FailedMutatorChangesNothing ==
  [][(calls' = calls + 1 /\ last_op' \in MutatorNames /\ raised' # "none")
       => /\ inputVars' = inputVars
          /\ valid_results' = valid_results]_vars
====
